---------------------------- MODULE Spec2Model ----------------------------
(***************************************************************************)
(* A model of detprob.py: the projection-factor distribution (class pdet)  *)
(* and the detection-probability pipeline (class detectability), with the  *)
(* on-disk pickle cache, the lazy in-memory wrappers and the grid builds   *)
(* (sequential map, or shuffled dispatch over the pathos pool).            *)
(*                                                                         *)
(* Numbers.  Masses, flow and snrthreshold are whole-valued floats, held   *)
(* as integers.  deltaf, zmin, zmax and redshifted masses are fixed-point  *)
(* numbers in units of 1/ZUnit.  mc1d, mcn, mcbins are Python ints.        *)
(* Optional values (None or x) are sequences: <<>> or <<x>>.               *)
(***************************************************************************)
EXTENDS Integers, Sequences, FiniteSets, TLC

\* ------------------------------------------------------------------ bounds
\* The shuffle np.random.permutation is drawn from the permutations that are
\* at most MaxSwaps transpositions away from the identity.
MaxSwaps == 1

\* The sequences handed to eval have at most MaxLen elements.
MaxLen == 2

\* ------------------------------------------------------- values, rendering
\* Resolution of the fixed-point floats: zmin = 1e-4 is one unit.
ZUnit == 10000

Digit(d) == ToString(d)

\* The fractional digits of n/ZUnit as Python's str() prints them: trailing
\* zeros dropped, one digit kept ("1.0", "0.025", "0.0001", "2.2").
FracStr(f) ==
  LET d1 == f \div 1000
      d2 == (f \div 100) % 10
      d3 == (f \div 10) % 10
      d4 == f % 10
  IN  IF d4 # 0 THEN Digit(d1) \o Digit(d2) \o Digit(d3) \o Digit(d4)
      ELSE IF d3 # 0 THEN Digit(d1) \o Digit(d2) \o Digit(d3)
      ELSE IF d2 # 0 THEN Digit(d1) \o Digit(d2)
      ELSE Digit(d1)

\* str(x) of a float held in units of 1/ZUnit.
StrFixed(n) == ToString(n \div ZUnit) \o "." \o FracStr(n % ZUnit)

\* str(x) of a whole-valued float: 10. prints as "10.0".
StrWhole(n) == ToString(n) \o ".0"

\* str(x) of a Python int.
StrInt(n) == ToString(n)

\* ---------------------------------------------------------- configurations
\* The module-level default directory (detprob_data beside the module).
directory == "detprob_data"

\* detectability.__init__'s keyword defaults.  mc1d, mcn and mcbins are
\* scaled down (200, 1e8, 1e5 in the source): they size the grids and the
\* Monte-Carlo sample.
DefaultConfig ==
  [ approximant  |-> "IMRPhenomD",
    psd          |-> "aLIGOZeroDetHighPower",
    flow         |-> 10,
    deltaf       |-> 250,
    snrthreshold |-> 8,
    screen       |-> FALSE,
    parallel     |-> TRUE,
    massmin      |-> 1,
    massmax      |-> 100,
    zmin         |-> 1,
    zmax         |-> 22000,
    directory    |-> directory,
    binfile      |-> <<>>,
    binfilepdet  |-> <<>>,
    mc1d         |-> 1,
    mcn          |-> 2,
    mcbins       |-> 2,
    has_pycbc    |-> TRUE ]

\* The configurations a caller constructs the pipeline with.
Configs ==
  { DefaultConfig,
    [DefaultConfig EXCEPT !.parallel = FALSE],
    [DefaultConfig EXCEPT !.has_pycbc = FALSE],
    [DefaultConfig EXCEPT !.mcn = 3],
    [DefaultConfig EXCEPT !.directory = "alt_data"] }

\* Configurations with two samples per axis: 4 SNR-grid points, 8
\* detection-grid points.
GridConfigs ==
  { [DefaultConfig EXCEPT !.mc1d = 2],
    [DefaultConfig EXCEPT !.mc1d = 2, !.parallel = FALSE] }

\* Sequential configurations over other mass and redshift ranges (masses 1
\* to 5, redshifts 0 to 2), ranges of a single value among them, with two
\* and three samples per axis.
DomainConfigs ==
  { [DefaultConfig EXCEPT !.parallel = FALSE, !.massmin = m[1], !.massmax = m[2],
                          !.zmin = z[1], !.zmax = z[2], !.mc1d = n] :
      m \in { << 1, 5 >>, << 2, 4 >>, << 3, 3 >> },
      z \in { << 0, ZUnit >>, << ZUnit \div 2, ZUnit \div 2 >>, << ZUnit \div 2, 2 * ZUnit >> },
      n \in { 2, 3 } }

AllConfigs == Configs \cup GridConfigs \cup DomainConfigs

\* The parameters that affect the values of the detection-probability grid.
ValueParams(c) ==
  << c.approximant, c.psd, c.flow, c.deltaf, c.snrthreshold, c.massmin,
     c.massmax, c.zmin, c.zmax, c.mc1d, c.mcn, c.mcbins >>

\* ------------------------------------------------------------ fingerprints
\* pdet.__init__: 'pdet_' + '_'.join(name + '_' + str(value)) + '.pkl'
PdetBinfileName(mcn, mcbins) ==
  "pdet_" \o "mcn_" \o StrInt(mcn) \o "_" \o "mcbins_" \o StrInt(mcbins) \o ".pkl"

PdetBinfile(dir, binfile, mcn, mcbins) ==
  dir \o "/" \o (IF binfile = <<>> THEN PdetBinfileName(mcn, mcbins) ELSE binfile[1])

\* detectability.__init__: 'Pw_' + '_'.join(...) + '.pkl' over the ten names
\* of the list at line 161 (mcn and mcbins are not in it).
BinfileName(c) ==
  "Pw_" \o "approximant_" \o c.approximant
        \o "_psd_" \o c.psd
        \o "_flow_" \o StrWhole(c.flow)
        \o "_deltaf_" \o StrFixed(c.deltaf)
        \o "_snrthreshold_" \o StrWhole(c.snrthreshold)
        \o "_massmin_" \o StrWhole(c.massmin)
        \o "_massmax_" \o StrWhole(c.massmax)
        \o "_zmin_" \o StrFixed(c.zmin)
        \o "_zmax_" \o StrFixed(c.zmax)
        \o "_mc1d_" \o StrInt(c.mc1d)
        \o ".pkl"

\* self.binfile = directory + '/' + binfile
Binfile(c) ==
  c.directory \o "/" \o (IF c.binfile = <<>> THEN BinfileName(c) ELSE c.binfile[1])

\* ------------------------------------------------------------------- grids
\* np.linspace(lo, hi, n): n evenly spaced samples, both ends included.
Linspace(lo, hi, n) ==
  [i \in 1..n |-> IF n = 1 THEN lo ELSE lo + (((i - 1) * (hi - lo)) \div (n - 1))]

\* m1 * (1 + z) in units of 1/ZUnit.
Redshifted(m, z) == m * (ZUnit + z)

\* SNR grids over the source-frame masses, without the redshift.
SnrGridsSourceFrame(c) ==
  << Linspace(c.massmin, c.massmax, c.mc1d), Linspace(c.massmin, c.massmax, c.mc1d) >>

\* snrinterpolant's grids=[m1z_grid, m2z_grid] (lines 267-269).
SnrGrids(c) ==
  LET g == Linspace(Redshifted(c.massmin, c.zmin), Redshifted(c.massmax, c.zmax), c.mc1d)
  IN  << g, g >>

\* interpolate's grids=[m1_grid, m2_grid, z_grid] (lines 355-359).
DetGrids(c) ==
  LET m == Linspace(c.massmin, c.massmax, c.mc1d)
      z == Linspace(c.zmin, c.zmax, c.mc1d)
  IN  << m, m, z >>

\* The nested enumerate loops: the index tuples in row-major order (indices
\* from 1 here, from 0 in the source).
MeshCoord2(grids) ==
  LET n2 == Len(grids[2])
  IN  [t \in 1..(Len(grids[1]) * n2) |-> << ((t - 1) \div n2) + 1, ((t - 1) % n2) + 1 >>]

MeshCoord3(grids) ==
  LET n2 == Len(grids[2])
      n3 == Len(grids[3])
  IN  [t \in 1..(Len(grids[1]) * n2 * n3) |->
         << ((t - 1) \div (n2 * n3)) + 1, (((t - 1) \div n3) % n2) + 1, ((t - 1) % n3) + 1 >>]

\* The coordinate tuple appended beside each index tuple.
MeshGrid(grids, meshcoord) ==
  [t \in 1..Len(meshcoord) |-> [d \in 1..Len(grids) |-> grids[d][meshcoord[t][d]]]]

\* Every index tuple of the Cartesian product of the grids.
GridIndices(grids) ==
  IF Len(grids) = 2
  THEN { << i, j >> : i \in 1..Len(grids[1]), j \in 1..Len(grids[2]) }
  ELSE { << i, j, k >> : i \in 1..Len(grids[1]), j \in 1..Len(grids[2]),
                         k \in 1..Len(grids[3]) }

\* ------------------------------------------------------------ permutations
Identity(n) == [i \in 1..n |-> i]

Swap(p, i, j) == [p EXCEPT ![i] = p[j], ![j] = p[i]]

RECURSIVE PermsWithin(_, _)
PermsWithin(n, k) ==
  IF k = 0 THEN { Identity(n) }
  ELSE LET prev == PermsWithin(n, k - 1)
       IN  prev \cup { Swap(p, i, j) : p \in prev, i \in 1..n, j \in 1..n }

\* np.random.permutation(n)
permutation(n) == PermsWithin(n, MaxSwaps)

\* a[p]: numpy fancy indexing of an array by a permutation.
Take(a, p) == [t \in 1..Len(p) |-> a[p[t]]]

\* ------------------------------------------------- the evaluation functions
\* The waveform provider and the cosmology provider are black boxes: a value
\* is the term that names the call and its arguments.

\* _snr: sigma of get_fd_waveform(approximant, m1z, m2z, delta_f, f_lower,
\* distance=1.) against the psd.
Snr(c, redshiftedmasses) ==
  [ approximant |-> c.approximant, psd |-> c.psd, delta_f |-> c.deltaf,
    f_lower |-> c.flow, mass1 |-> redshiftedmasses[1],
    mass2 |-> redshiftedmasses[2], distance |-> 1 ]

\* RegularGridInterpolator's check of its points: every axis strictly
\* ascending, or a ValueError.
Ascending(grids) ==
  \A d \in 1..Len(grids) : \A i \in 1..(Len(grids[d]) - 1) : grids[d][i] < grids[d][i + 1]

\* RegularGridInterpolator(points=grids, values=..., bounds_error=False,
\* fill_value=None)
RegularGridInterpolator(grids, values) == [ points |-> grids, values |-> values ]

\* Calling an interpolant: at a grid point it returns the stored value, and
\* elsewhere the multilinear combination (a term of the interpolant and the
\* point).
Interp(interpolant, point) ==
  LET hit == { idx \in GridIndices(interpolant.points) :
                 \A d \in 1..Len(point) : interpolant.points[d][idx[d]] = point[d] }
  IN  IF hit # {} THEN interpolant.values[CHOOSE idx \in hit : TRUE]
      ELSE [ interpolant |-> interpolant, at |-> point ]

\* _compute: sf(snrthreshold / (snrint([m1*(1+z), m2*(1+z)]) / ld(z)))
Compute(c, snrint, sf, data) ==
  [ sf |-> sf, snrthreshold |-> c.snrthreshold,
    snr |-> Interp(snrint, << Redshifted(data[1], data[3]), Redshifted(data[2], data[3]) >>),
    luminosity_distance |-> data[3] ]

\* --------------------------------------------------- eval's arguments
\* A Python value handed to eval: a number, or a sequence of numbers.
Scalar(v) == [ seq |-> FALSE, val |-> v ]
Vector(s) == [ seq |-> TRUE, val |-> s ]

\* hasattr(x, "__len__")
hasattr_len(x) == x.seq

\* Lines 425-427: if not hasattr(m1, "__len__"): m1 = [m1]
Promote(x) == IF ~hasattr_len(x) THEN << x.val >> ELSE x.val

\* np.transpose([m1, m2, z]) for sequences of one length: the rows
\* (m1[i], m2[i], z[i]).
Transpose(m1, m2, z) == [i \in 1..Len(m1) |-> << m1[i], m2[i], z[i] >>]

\* What a call gives its caller: a value, or the exception it raises.
Value(v) == [ raises |-> "", value |-> << v >> ]
Raises(e) == [ raises |-> e, value |-> <<>> ]

\* Lines 431-433: the vectorised lookup and the demotion of a short result;
\* interpolated_values[0] of an empty array is an IndexError.
EvalLookup(interpolant, m1, m2, z) ==
  LET xi == Transpose(Promote(m1), Promote(m2), Promote(z))
      interpolated_values == [i \in 1..Len(xi) |-> Interp(interpolant, xi[i])]
  IN  IF Len(interpolated_values) > 1 THEN Value(Vector(interpolated_values))
      ELSE IF Len(interpolated_values) = 0 THEN Raises("IndexError")
      ELSE Value(Scalar(interpolated_values[1]))

\* ------------------------------------------------ the projection histogram
\* Projection factors w in [0, 1] are held in quarters: 0..4.
WValues == 0..4

\* montecarlo_samples(mcn): a vector of mcn projection factors.
SampleSpace(mcn) == [1..mcn -> WValues]

\* The draws followed in the pipeline specifications: two of the sample space.
SampleDraws(mcn) ==
  { [i \in 1..mcn |-> IF i = 1 THEN 0 ELSE 4],
    [i \in 1..mcn |-> IF i = 1 THEN 1 ELSE 3] }

\* The draw followed in the grid specification.
OneDraw(mcn) == { [i \in 1..mcn |-> IF i = 1 THEN 0 ELSE 4] }

SeqMin(s) == CHOOSE v \in { s[i] : i \in 1..Len(s) } : \A i \in 1..Len(s) : v <= s[i]
SeqMax(s) == CHOOSE v \in { s[i] : i \in 1..Len(s) } : \A i \in 1..Len(s) : v >= s[i]

\* np.histogram(samples, bins): equal-width bins over [min, max] (widened by
\* 0.5 on both sides when min = max), the last bin closed on the right.
Histogram(samples, bins) ==
  LET mn == SeqMin(samples)
      mx == SeqMax(samples)
      lo == IF mn = mx THEN mn - 2 ELSE mn
      hi == IF mn = mx THEN mx + 2 ELSE mx
      binof(v) == IF v = hi THEN bins ELSE (((v - lo) * bins) \div (hi - lo)) + 1
  IN  [ counts |-> [b \in 1..bins |->
                      Cardinality({ i \in 1..Len(samples) : binof(samples[i]) = b })],
        lo |-> lo, hi |-> hi,
        observed |-> << mn, mx >> ]   \* history: the extremes of the sample

\* scipy.stats.rv_histogram(hist)
rv_histogram(hist) == [ hist |-> hist ]

RECURSIVE SumTo(_, _)
SumTo(counts, k) == IF k = 0 THEN 0 ELSE counts[k] + SumTo(counts, k - 1)

\* A probability as a fraction; every value of one distribution has the
\* same denominator.
Frac(num, den) == [ num |-> num, den |-> den ]

\* hist_dist.cdf(w): 0 below the support, 1 above it, and inside it the
\* cumulated bin masses, linear within a bin.
Cdf(dist, w) ==
  LET h == dist.hist
      bins == Len(h.counts)
      span == h.hi - h.lo
      n == SumTo(h.counts, bins)
      k == ((w - h.lo) * bins) \div span
  IN  IF w <= h.lo THEN Frac(0, n * span)
      ELSE IF w >= h.hi THEN Frac(n * span, n * span)
      ELSE Frac(SumTo(h.counts, k) * span
                  + h.counts[k + 1] * ((w - h.lo) * bins - k * span), n * span)

\* A wrapper that answers with the cdf P(<w).
SfIsCdf(dist, w) == Cdf(dist, w)

\* hist_dist.sf(w), the wrapper pdet keeps (line 106): P(>w) = 1 - cdf(w).
Sf(dist, w) == Frac(Cdf(dist, w).den - Cdf(dist, w).num, Cdf(dist, w).den)

\* ------------------------------------------------------------ batch results
\* One slot of the imap iterator (or of the list map returns): not yet
\* computed, a value, or the exception the task raised.
Pending == [ st |-> "pending", val |-> <<>> ]
Done(v) == [ st |-> "ok", val |-> << v >> ]
Raised == [ st |-> "raise", val |-> <<>> ]

\* An index that takes every dispatched task for a completed one.
IndexOfDispatched(meshvalues) == Len(meshvalues)

\* IMapIterator._index: the number of leading tasks whose result has arrived.
RECURSIVE Index(_)
Index(meshvalues) ==
  IF meshvalues = <<>> \/ Head(meshvalues).st = "pending" THEN 0
  ELSE 1 + Index(Tail(meshvalues))

\* np.zeros(...): an array cell not yet assigned.
Zero == [ zero |-> TRUE ]

\* The shuffle of the index tuples: meshcoord = meshcoord[p].
ShuffleCoordForgotten(meshcoord, p) == meshcoord
ShuffleCoord(meshcoord, p) == Take(meshcoord, p)

\* The shuffle of the coordinates: meshgrid = meshgrid[p].
ShuffleGridForgotten(meshgrid, p) == meshgrid
ShuffleGrid(meshgrid, p) == Take(meshgrid, p)

\* valuesforinterpolator = np.zeros(...); for ij, val in zip(meshcoord,
\* meshvalues): valuesforinterpolator[ij] = val
RECURSIVE AssignInOrder(_, _, _, _)
AssignInOrder(values, meshcoord, meshvalues, t) ==
  IF t > Len(meshcoord) THEN values
  ELSE AssignInOrder([values EXCEPT ![meshcoord[t]] = meshvalues[t].val[1]],
                     meshcoord, meshvalues, t + 1)

Assemble(grids, meshcoord, meshvalues) ==
  AssignInOrder([idx \in GridIndices(grids) |-> Zero], meshcoord, meshvalues, 1)

\* ------------------------------------------------------------------- state
Procs == { "p1", "p2" }

\* A pdet object: pdet.__init__ (lines 60-69).
Pdet(dir, binfile, mcn, mcbins) ==
  [ directory |-> dir, binfile |-> PdetBinfile(dir, binfile, mcn, mcbins),
    mcn |-> mcn, mcbins |-> mcbins, _interpolate |-> <<>> ]

\* Every path an object of one of the configurations can name.
PathsOf(configs) ==
  { Binfile(c) : c \in configs }
    \cup { PdetBinfile(d, c.binfilepdet, c.mcn, c.mcbins) :
             d \in { directory } \cup { c.directory : c \in configs }, c \in configs }

\* The paths of the configurations objects are constructed with, and the
\* paths of the configurations over other ranges.
AllPaths == PathsOf(Configs \cup GridConfigs)
DomainPaths == PathsOf(DomainConfigs)

Absent == [ state |-> "absent", data |-> <<>>, by |-> <<>>, writes |-> 0 ]

VARIABLES
  inst,     \* per process: its detectability object (the attributes of self)
  pc,       \* per process: the statement it is at
  op,       \* per process: the public method the caller invoked
  loc,      \* per process: the locals of the running build
  outcome,  \* per process: how the last public call (or construction) ended
  disk,     \* path -> file: absent, partial (opened for write, dump not
            \* finished) or complete, with the pickled object
  dirs,     \* the directories that exist
  retval,   \* per process: what the last public call gave its caller
  hist,     \* per process: history of the current object (not program state)
  built     \* history: the SNR-grid fingerprints some object has built

vars == << inst, pc, op, loc, outcome, retval, disk, dirs, hist, built >>

NoInstance ==
  [ alive |-> FALSE, cfg |-> DefaultConfig, binfile |-> "", map |-> 0,
    _interpolate |-> <<>>, _snrinterpolant |-> <<>>, _pdetproj |-> <<>> ]

NoLocals ==
  [ grids |-> <<>>, meshcoord |-> <<>>, meshgrid |-> <<>>, meshvalues |-> <<>>,
    pickled |-> <<>> ]

NoWork == [ snr |-> 0, compute |-> 0, montecarlo |-> 0 ]

NoHistory ==
  [ pools |-> 0,            \* worker pools created by the object
    snrpool |-> 0,          \* the pool the SNR batch was dispatched through
    detpool |-> 0,          \* the pool the detection batch was dispatched through
    snrshuffled |-> FALSE,  \* the SNR batch was dispatched in a shuffled order
    detshuffled |-> FALSE,  \* the detection batch likewise
    loadedby |-> <<>>,      \* the value parameters the loaded detection
                            \* artifact was built under
    method |-> "none",      \* the public method of the running / last call
    memo |-> FALSE,         \* that method's wrapper was in memory at the call
    present |-> FALSE,      \* the detection artifact existed when interpolate
                            \* first ran in the call
    pdetpresent |-> FALSE,  \* the same for pdet.interpolate
    work |-> NoWork,        \* provider / grid-point / Monte-Carlo evaluations
                            \* made by the call
    loads |-> 0 ]           \* artifacts unpickled by the call

os_path_isfile(path) == disk[path].state # "absent"

Init ==
  /\ inst = [p \in Procs |-> NoInstance]
  /\ pc = [p \in Procs |-> "idle"]
  /\ op = [p \in Procs |-> "none"]
  /\ loc = [p \in Procs |-> NoLocals]
  /\ outcome = [p \in Procs |-> "none"]
  /\ retval = [p \in Procs |-> <<>>]
  /\ disk = [f \in AllPaths |-> Absent]
  /\ dirs = {}
  /\ hist = [p \in Procs |-> NoHistory]
  /\ built = {}

\* A public call returns, or an exception reaches the caller.
Finish(p, how) ==
  /\ pc' = [pc EXCEPT ![p] = "idle"]
  /\ op' = [op EXCEPT ![p] = "none"]
  /\ loc' = [loc EXCEPT ![p] = NoLocals]
  /\ outcome' = [outcome EXCEPT ![p] = how]
  /\ retval' = [retval EXCEPT ![p] = <<>>]

\* A public call gives its caller a value (or the exception result.raises)
\* for the arguments it was called with.
Return(p, args, result) ==
  /\ pc' = [pc EXCEPT ![p] = "idle"]
  /\ op' = [op EXCEPT ![p] = "none"]
  /\ loc' = [loc EXCEPT ![p] = NoLocals]
  /\ outcome' = [outcome EXCEPT ![p] = IF result.raises = "" THEN "returned" ELSE result.raises]
  /\ retval' = [retval EXCEPT ![p] = << [ args |-> args, value |-> result.value ] >>]

Goto(p, label) ==
  /\ pc' = [pc EXCEPT ![p] = label]
  /\ UNCHANGED << op, outcome, retval >>

\* detectability.__init__ (lines 147-180).  The pool is created only when
\* parallel is set and the artifact is not on disk at that moment.
MakesPool(c) == c.parallel /\ ~os_path_isfile(Binfile(c))

\* The object __init__ leaves.
NewObject(c) ==
  [ alive |-> TRUE, cfg |-> c, binfile |-> Binfile(c),
    map |-> IF MakesPool(c) THEN 1 ELSE 0,
    _interpolate |-> <<>>, _snrinterpolant |-> <<>>, _pdetproj |-> <<>> ]

Construct(p, c) ==
  /\ pc[p] = "idle"
  /\ inst' = [inst EXCEPT ![p] = NewObject(c)]
  /\ hist' = [hist EXCEPT ![p] = [NoHistory EXCEPT !.pools = IF MakesPool(c) THEN 1 ELSE 0]]
  /\ Finish(p, "constructed")
  /\ UNCHANGED << disk, dirs, built >>

\* The memo test of a lazy attribute: "if self._x is None" fails.
MemoizedNever(wrapper) == FALSE
Memoized(wrapper) == wrapper # <<>>

\* The fingerprint of the SNR grid: what its values depend on.
SnrFingerprint(c) ==
  << c.approximant, c.psd, c.flow, c.deltaf, c.massmin, c.massmax, c.zmin, c.zmax, c.mc1d >>

\* The wrapper a public method serves from.
WrapperOf(self, method) ==
  IF method = "eval" THEN self._interpolate
  ELSE IF method = "snrinterpolant" THEN self._snrinterpolant
  ELSE IF method = "compute" \/ self._pdetproj = <<>> THEN <<>>
  ELSE self._pdetproj[1]._interpolate

\* The caller invokes a public method of its object.
Call(p, method, label) ==
  /\ pc[p] = "idle"
  /\ inst[p].alive
  /\ pc' = [pc EXCEPT ![p] = label]
  /\ op' = [op EXCEPT ![p] = method]
  /\ outcome' = [outcome EXCEPT ![p] = "running"]
  /\ retval' = [retval EXCEPT ![p] = <<>>]
  /\ hist' = [hist EXCEPT ![p].work = NoWork, ![p].present = FALSE,
                          ![p].pdetpresent = FALSE, ![p].loads = 0,
                          ![p].method = method,
                          ![p].memo = (WrapperOf(inst[p], method) # <<>>)]
  /\ UNCHANGED << inst, loc, disk, dirs, built >>

\* dp.eval(m1, m2, z) / dp(m1, m2, z): line 429 enters interpolate().
CallEval(p) == Call(p, "eval", "interpolate")

\* dp.snrinterpolant()
CallSnrinterpolant(p) == Call(p, "snrinterpolant", "snrinterpolant")

\* dp.pdetproj().eval(w): projection-factor-only use.
CallPdetproj(p) == Call(p, "pdetproj", "pdetproj")

\* dp.compute(m1, m2, z)
CallCompute(p) == Call(p, "compute", "compute")

\* compute (lines 231-236) is a plain method whose first parameter is named
\* cls: called on an object, cls is that object, and line 234, cls(), is the
\* object's __call__ without m1, m2, z: a TypeError, before any SNR is
\* computed.
ComputeDirect(p) ==
  /\ pc[p] = "compute"
  /\ Finish(p, "TypeError")
  /\ UNCHANGED << inst, disk, dirs, hist, built >>

\* -------------------------------------------------------------- the files
\* open(path, 'wb'): the file exists, empty, from here on.
OpenForWrite(path) ==
  [disk EXCEPT ![path] = [ state |-> "partial", data |-> <<>>, by |-> <<>>,
                           writes |-> @.writes + 1 ]]

\* A dump that does not reach the end of the file.
DumpUnfinished(path, obj, c) == disk

\* pickle.dump(obj, f) and the close of the with block (history: by, the
\* value parameters of the writer, and writes, the times the file now at the
\* path has been opened for writing: once, by this writer, if the path was
\* removed since the open).
DumpTo(path, obj, c) ==
  [disk EXCEPT ![path] = [ state |-> "complete", data |-> << obj >>,
                           by |-> << ValueParams(c) >>,
                           writes |-> IF @.state = "absent" THEN 1 ELSE @.writes ]]

\* ------------------------------------------ detectability.snrinterpolant
\* snrinterpolant() returns to its caller: the public caller, or line 348
\* of interpolate.
SnrReturns(p) ==
  IF op[p] = "snrinterpolant"
  THEN Finish(p, "returned")
  ELSE Goto(p, "det_pdetproj") /\ loc' = [loc EXCEPT ![p] = NoLocals]

\* A build that makes a pool of its own (the commented-out lines 295, 386).
MapOfOwnPool(self) == [ pool |-> self.map + 1, created |-> 1 ]

\* The map a parallel build dispatches through (lines 301, 390): self.map,
\* the imap of the pool made at construction; no pool is created here.
\* pool 0: the object has no attribute map.
MapOf(self) == [ pool |-> self.map, created |-> 0 ]

\* The locals of a build once the batch is laid out.
Batch(grids, meshcoord, meshgrid) ==
  [NoLocals EXCEPT !.grids = grids, !.meshcoord = meshcoord, !.meshgrid = meshgrid,
                   !.meshvalues = [t \in 1..Len(meshgrid) |-> Pending]]

\* Lines 253-301 / 312: the memo test, the assert, the mesh, and in parallel
\* mode the shuffle and the dispatch through self.map.
Snrinterpolant(p) ==
  LET self == inst[p]
      grids == SnrGrids(self.cfg)
      meshcoord == MeshCoord2(grids)
      meshgrid == MeshGrid(grids, meshcoord)
  IN
  /\ pc[p] = "snrinterpolant"
  /\ UNCHANGED << inst, disk, dirs, built >>
  /\ IF Memoized(self._snrinterpolant)
     THEN SnrReturns(p) /\ UNCHANGED hist
     ELSE IF ~self.cfg.has_pycbc
     THEN Finish(p, "AssertionError") /\ UNCHANGED hist
     ELSE IF ~self.cfg.parallel
     THEN /\ loc' = [loc EXCEPT ![p] = Batch(grids, meshcoord, meshgrid)]
          /\ Goto(p, "snr_map")
          /\ UNCHANGED hist
     ELSE IF MapOf(self).pool = 0
     THEN Finish(p, "AttributeError") /\ UNCHANGED hist
     ELSE \E perm \in permutation(Len(meshcoord)) :
          /\ loc' = [loc EXCEPT ![p] =
                 Batch(grids, ShuffleCoord(meshcoord, perm), ShuffleGrid(meshgrid, perm))]
          /\ hist' = [hist EXCEPT ![p].snrpool = MapOf(self).pool,
                                  ![p].pools = @ + MapOf(self).created,
                                  ![p].snrshuffled = (perm # Identity(Len(meshcoord)))]
          /\ Goto(p, "snr_poll")

\* A pool worker finishes task t of the SNR batch: self._snr(meshgrid[t]).
Snr_Worker(p, t) ==
  /\ pc[p] = "snr_poll"
  /\ t \in 1..Len(loc[p].meshvalues)
  /\ loc[p].meshvalues[t].st = "pending"
  /\ loc' = [loc EXCEPT ![p].meshvalues[t] = Done(Snr(inst[p].cfg, loc[p].meshgrid[t]))]
  /\ hist' = [hist EXCEPT ![p].work.snr = @ + 1]
  /\ UNCHANGED << inst, pc, op, outcome, retval, disk, dirs, built >>

\* The provider raises in a pool worker: the iterator holds the exception.
Snr_WorkerFails(p, t) ==
  /\ pc[p] = "snr_poll"
  /\ t \in 1..Len(loc[p].meshvalues)
  /\ loc[p].meshvalues[t].st = "pending"
  /\ loc' = [loc EXCEPT ![p].meshvalues[t] = Raised]
  /\ hist' = [hist EXCEPT ![p].work.snr = @ + 1]
  /\ UNCHANGED << inst, pc, op, outcome, retval, disk, dirs, built >>

\* Lines 302-306: one turn of the polling loop.
Snr_Poll(p) ==
  /\ pc[p] = "snr_poll"
  /\ IF Index(loc[p].meshvalues) = Len(loc[p].meshgrid)
     THEN Goto(p, "snr_assemble")
     ELSE UNCHANGED << pc, op, outcome, retval >>
  /\ UNCHANGED << inst, loc, disk, dirs, hist, built >>

\* Line 312, map(self._snr, meshgrid): the next point, in order.
Snr_Map(p) ==
  LET t == Index(loc[p].meshvalues) + 1 IN
  /\ pc[p] = "snr_map"
  /\ loc' = [loc EXCEPT ![p].meshvalues[t] = Done(Snr(inst[p].cfg, loc[p].meshgrid[t]))]
  /\ hist' = [hist EXCEPT ![p].work.snr = @ + 1]
  /\ Goto(p, IF t = Len(loc[p].meshgrid) THEN "snr_assemble" ELSE "snr_map")
  /\ UNCHANGED << inst, disk, dirs, built >>

\* The provider raises inside map: the exception leaves snrinterpolant.
Snr_MapFails(p) ==
  /\ pc[p] = "snr_map"
  /\ hist' = [hist EXCEPT ![p].work.snr = @ + 1]
  /\ Finish(p, "TaskError")
  /\ UNCHANGED << inst, disk, dirs, built >>

\* Lines 316-323: zip re-raises a task's exception; otherwise the dense array
\* is filled and the interpolant is memoized (it is not written to disk: the
\* pickle of lines 325-327 is commented out).
Snr_Assemble(p) ==
  LET l == loc[p] IN
  /\ pc[p] = "snr_assemble"
  /\ UNCHANGED << disk, dirs, hist >>
  /\ IF \E t \in 1..Len(l.meshvalues) : l.meshvalues[t].st = "raise"
     THEN Finish(p, "TaskError") /\ UNCHANGED << inst, built >>
     ELSE IF ~Ascending(l.grids)
     THEN Finish(p, "ValueError") /\ UNCHANGED << inst, built >>
     ELSE /\ inst' = [inst EXCEPT ![p]._snrinterpolant =
                 << RegularGridInterpolator(l.grids,
                        Assemble(l.grids, l.meshcoord, l.meshvalues)) >>]
          /\ built' = built \cup { SnrFingerprint(inst[p].cfg) }
          /\ SnrReturns(p)

\* ------------------------------------------------------------------- pdet
\* The directory detectability.pdetproj hands to pdet (line 184): the name
\* directory there is the module-level default, not self.directory.
PdetprojDirectory(self) == directory

\* pdetproj() (lines 182-185), then pdet.eval -> pdet.interpolate.
Pdetproj(p) ==
  LET self == inst[p] IN
  /\ pc[p] \in { "pdetproj", "det_pdetproj" }
  /\ inst' = [inst EXCEPT ![p]._pdetproj =
       IF Memoized(self._pdetproj)
       THEN self._pdetproj
       ELSE << Pdet(PdetprojDirectory(self), self.cfg.binfilepdet,
                    self.cfg.mcn, self.cfg.mcbins) >>]
  /\ Goto(p, "pdet_interpolate")
  /\ UNCHANGED << loc, disk, dirs, hist, built >>

\* pdet.eval returns to its caller: the public caller, or line 350.
PdetReturns(p) ==
  IF op[p] = "pdetproj"
  THEN Goto(p, "pdet_eval") /\ loc' = [loc EXCEPT ![p] = NoLocals]
  ELSE Goto(p, "det_grid") /\ loc' = [loc EXCEPT ![p] = NoLocals]

\* pdet.interpolate, lines 91-94: the memo test and the isfile test.
Pdet_Interpolate(p) ==
  LET pd == inst[p]._pdetproj[1] IN
  /\ pc[p] = "pdet_interpolate"
  /\ UNCHANGED << inst, disk, dirs, built >>
  /\ IF Memoized(pd._interpolate)
     THEN PdetReturns(p) /\ UNCHANGED hist
     ELSE /\ Goto(p, IF os_path_isfile(pd.binfile) THEN "pdet_load" ELSE "pdet_build")
          /\ hist' = [hist EXCEPT ![p].pdetpresent = os_path_isfile(pd.binfile)]
          /\ UNCHANGED loc

\* Lines 95-101: the directory on demand, the Monte-Carlo sample, its
\* histogram.
Pdet_Build(p, samples) ==
  LET pd == inst[p]._pdetproj[1] IN
  /\ pc[p] = "pdet_build"
  /\ dirs' = dirs \cup { pd.directory }
  /\ loc' = [loc EXCEPT ![p].pickled = << rv_histogram(Histogram(samples, pd.mcbins)) >>]
  /\ hist' = [hist EXCEPT ![p].work.montecarlo = @ + 1]
  /\ Goto(p, "pdet_open")
  /\ UNCHANGED << inst, disk, built >>

\* Line 103, first half: open(self.binfile, 'wb').
Pdet_Open(p) ==
  /\ pc[p] = "pdet_open"
  /\ disk' = OpenForWrite(inst[p]._pdetproj[1].binfile)
  /\ Goto(p, "pdet_dump")
  /\ UNCHANGED << inst, loc, dirs, hist, built >>

\* Line 103, second half: pickle.dump and the close.
Pdet_Dump(p) ==
  /\ pc[p] = "pdet_dump"
  /\ disk' = DumpTo(inst[p]._pdetproj[1].binfile, loc[p].pickled[1], inst[p].cfg)
  /\ Goto(p, "pdet_load")
  /\ UNCHANGED << inst, loc, dirs, hist, built >>

\* Lines 104-106: open for read, pickle.load, self._interpolate = sf.
Pdet_Load(p) ==
  LET pd == inst[p]._pdetproj[1]
      f == disk[pd.binfile]
  IN
  /\ pc[p] = "pdet_load"
  /\ UNCHANGED << disk, dirs, built >>
  /\ IF f.state = "absent"
     THEN Finish(p, "IOError") /\ UNCHANGED << inst, hist >>
     ELSE IF f.state = "partial"
     THEN Finish(p, "UnpicklingError") /\ UNCHANGED << inst, hist >>
     ELSE /\ inst' = [inst EXCEPT ![p]._pdetproj[1]._interpolate = f.data]
          /\ hist' = [hist EXCEPT ![p].loads = @ + 1]
          /\ PdetReturns(p)

\* pdet.eval(w), lines 111-114: the wrapper applied to w.
Pdet_Eval(p, w) ==
  /\ pc[p] = "pdet_eval"
  /\ Return(p, w, Value(Sf(inst[p]._pdetproj[1]._interpolate[1], w)))
  /\ UNCHANGED << inst, disk, dirs, hist, built >>

\* ------------------------------------------------ detectability.interpolate
\* The assert at line 337 sits under the memo test, before the cache test.
InterpolateAsserts(self) == ~self.cfg.has_pycbc

\* Lines 336-337: the memo test and the assert.
Interpolate(p) ==
  LET self == inst[p] IN
  /\ pc[p] = "interpolate"
  /\ UNCHANGED << inst, disk, dirs, built >>
  /\ IF Memoized(self._interpolate)
     THEN Goto(p, "eval_lookup") /\ UNCHANGED << loc, hist >>
     ELSE /\ hist' = [hist EXCEPT ![p].present = os_path_isfile(self.binfile)]
          /\ IF InterpolateAsserts(self)
             THEN Finish(p, "AssertionError")
             ELSE Goto(p, "det_isfile") /\ UNCHANGED loc

\* Line 340: the cache test.
Det_IsFile(p) ==
  /\ pc[p] = "det_isfile"
  /\ Goto(p, IF os_path_isfile(inst[p].binfile) THEN "det_load" ELSE "det_makedirs")
  /\ UNCHANGED << inst, loc, disk, dirs, hist, built >>

\* A miss path that goes to the projection distribution without the SNR grid.
Det_MakedirsThenPdet(p) ==
  /\ pc[p] = "det_makedirs"
  /\ dirs' = dirs \cup { inst[p].cfg.directory }
  /\ Goto(p, "det_pdetproj")
  /\ UNCHANGED << inst, loc, disk, hist, built >>

\* Lines 341-348: the directory on demand, then snrinterpolant().
Det_Makedirs(p) ==
  /\ pc[p] = "det_makedirs"
  /\ dirs' = dirs \cup { inst[p].cfg.directory }
  /\ Goto(p, "snrinterpolant")
  /\ UNCHANGED << inst, loc, disk, hist, built >>

\* self._compute(data) with the memoized SNR interpolant and survival
\* function of the object (the pool workers hold a copy of it).
ComputeOf(self, data) ==
  Compute(self.cfg, self._snrinterpolant[1], self._pdetproj[1]._interpolate[1], data)

\* Lines 355-390 / 402: the mesh, and in parallel mode the shuffle and the
\* dispatch through self.map.
Det_Grid(p) ==
  LET self == inst[p]
      grids == DetGrids(self.cfg)
      meshcoord == MeshCoord3(grids)
      meshgrid == MeshGrid(grids, meshcoord)
  IN
  /\ pc[p] = "det_grid"
  /\ UNCHANGED << inst, disk, dirs, built >>
  /\ IF ~self.cfg.parallel
     THEN /\ loc' = [loc EXCEPT ![p] = Batch(grids, meshcoord, meshgrid)]
          /\ Goto(p, "det_map")
          /\ UNCHANGED hist
     ELSE IF MapOf(self).pool = 0
     THEN Finish(p, "AttributeError") /\ UNCHANGED hist
     ELSE \E perm \in permutation(Len(meshcoord)) :
          /\ loc' = [loc EXCEPT ![p] =
                 Batch(grids, ShuffleCoord(meshcoord, perm), ShuffleGrid(meshgrid, perm))]
          /\ hist' = [hist EXCEPT ![p].detpool = MapOf(self).pool,
                                  ![p].pools = @ + MapOf(self).created,
                                  ![p].detshuffled = (perm # Identity(Len(meshcoord)))]
          /\ Goto(p, "det_poll")

\* A pool worker finishes task t of the detection batch.
Det_Worker(p, t) ==
  /\ pc[p] = "det_poll"
  /\ t \in 1..Len(loc[p].meshvalues)
  /\ loc[p].meshvalues[t].st = "pending"
  /\ loc' = [loc EXCEPT ![p].meshvalues[t] = Done(ComputeOf(inst[p], loc[p].meshgrid[t]))]
  /\ hist' = [hist EXCEPT ![p].work.compute = @ + 1]
  /\ UNCHANGED << inst, pc, op, outcome, retval, disk, dirs, built >>

\* A task raises in a pool worker: the iterator holds the exception.
Det_WorkerFails(p, t) ==
  /\ pc[p] = "det_poll"
  /\ t \in 1..Len(loc[p].meshvalues)
  /\ loc[p].meshvalues[t].st = "pending"
  /\ loc' = [loc EXCEPT ![p].meshvalues[t] = Raised]
  /\ hist' = [hist EXCEPT ![p].work.compute = @ + 1]
  /\ UNCHANGED << inst, pc, op, outcome, retval, disk, dirs, built >>

\* Lines 394-398: one turn of the polling loop.
Det_Poll(p) ==
  /\ pc[p] = "det_poll"
  /\ IF Index(loc[p].meshvalues) = Len(loc[p].meshgrid)
     THEN Goto(p, "det_assemble")
     ELSE UNCHANGED << pc, op, outcome, retval >>
  /\ UNCHANGED << inst, loc, disk, dirs, hist, built >>

\* Line 402, map(self._compute, meshgrid): the next point, in order.
Det_Map(p) ==
  LET t == Index(loc[p].meshvalues) + 1 IN
  /\ pc[p] = "det_map"
  /\ loc' = [loc EXCEPT ![p].meshvalues[t] = Done(ComputeOf(inst[p], loc[p].meshgrid[t]))]
  /\ hist' = [hist EXCEPT ![p].work.compute = @ + 1]
  /\ Goto(p, IF t = Len(loc[p].meshgrid) THEN "det_assemble" ELSE "det_map")
  /\ UNCHANGED << inst, disk, dirs, built >>

\* A task raises inside map: the exception leaves interpolate.
Det_MapFails(p) ==
  /\ pc[p] = "det_map"
  /\ hist' = [hist EXCEPT ![p].work.compute = @ + 1]
  /\ Finish(p, "TaskError")
  /\ UNCHANGED << inst, disk, dirs, built >>

\* Lines 406-411: zip re-raises a task's exception; otherwise the dense array
\* is filled and wrapped.
Det_Assemble(p) ==
  LET l == loc[p] IN
  /\ pc[p] = "det_assemble"
  /\ UNCHANGED << inst, disk, dirs, hist, built >>
  /\ IF \E t \in 1..Len(l.meshvalues) : l.meshvalues[t].st = "raise"
     THEN Finish(p, "TaskError")
     ELSE IF ~Ascending(l.grids)
     THEN Finish(p, "ValueError")
     ELSE /\ loc' = [loc EXCEPT ![p] =
                 [NoLocals EXCEPT !.pickled =
                    << RegularGridInterpolator(l.grids,
                           Assemble(l.grids, l.meshcoord, l.meshvalues)) >>]]
          /\ Goto(p, "det_open")

\* Line 413, first half: open(self.binfile, 'wb').
Det_Open(p) ==
  /\ pc[p] = "det_open"
  /\ disk' = OpenForWrite(inst[p].binfile)
  /\ Goto(p, "det_dump")
  /\ UNCHANGED << inst, loc, dirs, hist, built >>

\* Line 413, second half: pickle.dump and the close.
Det_Dump(p) ==
  /\ pc[p] = "det_dump"
  /\ disk' = DumpTo(inst[p].binfile, loc[p].pickled[1], inst[p].cfg)
  /\ Goto(p, "det_load")
  /\ UNCHANGED << inst, loc, dirs, hist, built >>

\* Lines 415-419: open for read, pickle.load, self._interpolate = interpolant.
Det_Load(p) ==
  LET f == disk[inst[p].binfile] IN
  /\ pc[p] = "det_load"
  /\ UNCHANGED << disk, dirs, built >>
  /\ IF f.state = "absent"
     THEN Finish(p, "IOError") /\ UNCHANGED << inst, hist >>
     ELSE IF f.state = "partial"
     THEN Finish(p, "UnpicklingError") /\ UNCHANGED << inst, hist >>
     ELSE /\ inst' = [inst EXCEPT ![p]._interpolate = f.data]
          /\ hist' = [hist EXCEPT ![p].loads = @ + 1, ![p].loadedby = f.by]
          /\ Goto(p, "eval_lookup")
          /\ loc' = [loc EXCEPT ![p] = NoLocals]

\* Lines 425-433 of eval, around its call of interpolate: the promotion of
\* the arguments, the lookup, the demotion of the result.
Eval_Lookup(p, q) ==
  /\ pc[p] = "eval_lookup"
  /\ Return(p, q, EvalLookup(inst[p]._interpolate[1], q.m1, q.m2, q.z))
  /\ UNCHANGED << inst, disk, dirs, hist, built >>

\* ------------------------------------------------------------- environment
\* The artifact at a path is removed from the cache directory.
Remove(f) ==
  /\ disk[f].state # "absent"
  /\ disk' = [disk EXCEPT ![f] = Absent]
  /\ UNCHANGED << inst, pc, op, loc, outcome, retval, dirs, hist, built >>

\* The process is terminated from outside while a public call runs: its
\* objects are gone, the files stay as they are.
Terminate(p) ==
  /\ pc[p] # "idle"
  /\ inst' = [inst EXCEPT ![p] = NoInstance]
  /\ hist' = [hist EXCEPT ![p] = NoHistory]
  /\ Finish(p, "terminated")
  /\ UNCHANGED << disk, dirs, built >>

\* ------------------------------------------------------------ specifications
\* What one process does, with the configurations given; in.draws[mcn] are the
\* Monte-Carlo samples followed.
Step(p, configs, in) ==
  \/ \E c \in configs : Construct(p, c)
  \/ CallEval(p)
  \/ CallSnrinterpolant(p)
  \/ CallPdetproj(p)
  \/ CallCompute(p)
  \/ ComputeDirect(p)
  \/ Interpolate(p)
  \/ Det_IsFile(p)
  \/ Det_Makedirs(p)
  \/ Snrinterpolant(p)
  \/ \E t \in 1..Len(loc[p].meshvalues) : Snr_Worker(p, t)
  \/ Snr_Poll(p)
  \/ Snr_Map(p)
  \/ Snr_Assemble(p)
  \/ Pdetproj(p)
  \/ Pdet_Interpolate(p)
  \/ \E s \in in.draws[inst[p].cfg.mcn] : Pdet_Build(p, s)
  \/ Pdet_Open(p)
  \/ Pdet_Dump(p)
  \/ Pdet_Load(p)
  \/ \E w \in in.ws : Pdet_Eval(p, w)
  \/ Det_Grid(p)
  \/ \E t \in 1..Len(loc[p].meshvalues) : Det_Worker(p, t)
  \/ Det_Poll(p)
  \/ Det_Map(p)
  \/ Det_Assemble(p)
  \/ Det_Open(p)
  \/ Det_Dump(p)
  \/ Det_Load(p)
  \/ \E q \in in.queries : Eval_Lookup(p, q)

\* A task of a batch raises.
Fails(p) ==
  \/ \E t \in 1..Len(loc[p].meshvalues) : Snr_WorkerFails(p, t)
  \/ Snr_MapFails(p)
  \/ \E t \in 1..Len(loc[p].meshvalues) : Det_WorkerFails(p, t)
  \/ Det_MapFails(p)

\* The Monte-Carlo samples followed, by sample count.
McnValues == { c.mcn : c \in AllConfigs }
AllDraws == [mcn \in McnValues |-> SampleDraws(mcn)]
FirstDraw == [mcn \in McnValues |-> OneDraw(mcn)]

\* The arguments of eval and of pdet.eval followed where they are not what
\* is looked at: a point of every detection grid, a w inside the support.
OneQuery == { [ m1 |-> Scalar(DefaultConfig.massmin), m2 |-> Scalar(DefaultConfig.massmin),
                z |-> Scalar(DefaultConfig.zmin) ] }
OneW == { 2 }

\* The arguments of eval followed in the lookup specification: scalars,
\* sequences of one length from 0 to MaxLen, and a scalar beside one-element
\* sequences; the points are a grid point and a point off the grid.
QueryPoints ==
  { << DefaultConfig.massmin, DefaultConfig.massmin, DefaultConfig.zmin >>,
    << DefaultConfig.massmin + 1, DefaultConfig.massmin, DefaultConfig.zmin >> }

Column(rows, d) == [i \in 1..Len(rows) |-> rows[i][d]]

EvalQueries ==
  { [ m1 |-> Scalar(pt[1]), m2 |-> Scalar(pt[2]), z |-> Scalar(pt[3]) ] : pt \in QueryPoints }
  \cup { [ m1 |-> Scalar(pt[1]), m2 |-> Vector(<< pt[2] >>), z |-> Vector(<< pt[3] >>) ] :
            pt \in QueryPoints }
  \cup { [ m1 |-> Vector(Column(rows, 1)), m2 |-> Vector(Column(rows, 2)),
            z |-> Vector(Column(rows, 3)) ] :
            rows \in UNION { [1..n -> QueryPoints] : n \in 0..MaxLen } }

\* The arguments of pdet.eval followed in the projection specification: the
\* quarters of [0, 1] and one step outside on either side.
WQueries == { w - 1 : w \in WValues } \cup WValues \cup { w + 1 : w \in WValues }

\* Every sample the Monte-Carlo draw can give.
EveryDraw == [mcn \in McnValues |-> SampleSpace(mcn)]

\* The inputs of a specification.
Inputs(draws, queries, ws) == [ draws |-> draws, queries |-> queries, ws |-> ws ]

\* One process: a sequence of constructions and public calls, any task of
\* a batch possibly raising.
Next ==
  \/ Step("p1", Configs, Inputs(AllDraws, OneQuery, OneW))
  \/ Fails("p1")

Spec == Init /\ [][Next]_vars

\* The same with the environment: external termination of the process and
\* removal of artifacts from the cache directory.
NextEnv ==
  \/ Step("p1", Configs, Inputs(AllDraws, OneQuery, OneW))
  \/ Fails("p1")
  \/ Terminate("p1")
  \/ \E f \in AllPaths : Remove(f)

SpecEnv == Init /\ [][NextEnv]_vars

\* One process building the two-samples-per-axis grids, every task completing.
NextGrid == Step("p1", GridConfigs, Inputs(FirstDraw, OneQuery, OneW))

SpecGrid == Init /\ [][NextGrid]_vars

\* The configurations of the default fingerprint, parallel and sequential.
EvalConfigs ==
  { c \in Configs : /\ ValueParams(c) = ValueParams(DefaultConfig)
                    /\ c.directory = directory
                    /\ c.has_pycbc }

\* One process evaluating the grid of the default fingerprint at scalars and
\* at sequences.
NextEval == Step("p1", EvalConfigs, Inputs(FirstDraw, EvalQueries, OneW))

SpecEval == Init /\ [][NextEval]_vars

\* One process using the projection distribution, over every sample and
\* every w.
NextPdet == Step("p1", EvalConfigs, Inputs(EveryDraw, OneQuery, WQueries))

SpecPdet == Init /\ [][NextPdet]_vars

\* Two processes, each constructing objects of the default fingerprint and
\* calling them, with nothing between them but the cache directory.
NextRace ==
  \/ Step("p1", EvalConfigs, Inputs(FirstDraw, OneQuery, OneW))
  \/ Step("p2", EvalConfigs, Inputs(FirstDraw, OneQuery, OneW))

SpecRace == Init /\ [][NextRace]_vars

\* The parallel builds of the two-samples-per-axis grids by one process,
\* where the pool keeps completing tasks while some are pending and the
\* builder keeps polling: the pool and the builder's loop are weakly fair.
PollConfigs == { c \in GridConfigs : c.parallel }

NextPoll ==
  \/ \E c \in PollConfigs : Construct("p1", c)
  \/ CallEval("p1")
  \/ Interpolate("p1")
  \/ Det_IsFile("p1")
  \/ Det_Makedirs("p1")
  \/ Snrinterpolant("p1")
  \/ \E t \in 1..Len(loc["p1"].meshvalues) : Snr_Worker("p1", t)
  \/ Snr_Poll("p1")
  \/ Snr_Assemble("p1")
  \/ Pdetproj("p1")
  \/ Pdet_Interpolate("p1")
  \/ \E s \in FirstDraw[inst["p1"].cfg.mcn] : Pdet_Build("p1", s)
  \/ Pdet_Open("p1")
  \/ Pdet_Dump("p1")
  \/ Pdet_Load("p1")
  \/ Det_Grid("p1")
  \/ \E t \in 1..Len(loc["p1"].meshvalues) : Det_Worker("p1", t)
  \/ Det_Poll("p1")
  \/ Det_Assemble("p1")
  \/ Det_Open("p1")
  \/ Det_Dump("p1")
  \/ Det_Load("p1")
  \/ \E q \in OneQuery : Eval_Lookup("p1", q)

\* The tasks of the largest batch.
TaskIds ==
  UNION { 1..Len(MeshCoord3(DetGrids(c))) : c \in PollConfigs }

SpecPoll ==
  /\ Init
  /\ [][NextPoll]_vars
  /\ WF_vars(\E t \in TaskIds : Snr_Worker("p1", t))
  /\ WF_vars(\E t \in TaskIds : Det_Worker("p1", t))
  /\ WF_vars(Snr_Poll("p1"))
  /\ WF_vars(Det_Poll("p1"))

\* One object of each configuration of DomainConfigs, constructed over an
\* empty cache directory, and the evals of it.
InitDomain ==
  /\ \E c \in DomainConfigs :
        inst = [p \in Procs |-> IF p = "p1" THEN [NewObject(c) EXCEPT !.map = 0]
                                             ELSE NoInstance]
  /\ pc = [p \in Procs |-> "idle"]
  /\ op = [p \in Procs |-> "none"]
  /\ loc = [p \in Procs |-> NoLocals]
  /\ outcome = [p \in Procs |-> IF p = "p1" THEN "constructed" ELSE "none"]
  /\ retval = [p \in Procs |-> <<>>]
  /\ disk = [f \in DomainPaths |-> Absent]
  /\ dirs = {}
  /\ hist = [p \in Procs |-> NoHistory]
  /\ built = {}

NextDomain ==
  \/ CallEval("p1")
  \/ Interpolate("p1")
  \/ Det_IsFile("p1")
  \/ Det_Makedirs("p1")
  \/ Snrinterpolant("p1")
  \/ Snr_Map("p1")
  \/ Snr_Assemble("p1")
  \/ Pdetproj("p1")
  \/ Pdet_Interpolate("p1")
  \/ \E s \in FirstDraw[inst["p1"].cfg.mcn] : Pdet_Build("p1", s)
  \/ Pdet_Open("p1")
  \/ Pdet_Dump("p1")
  \/ Pdet_Load("p1")
  \/ Det_Grid("p1")
  \/ Det_Map("p1")
  \/ Det_Assemble("p1")
  \/ Det_Open("p1")
  \/ Det_Dump("p1")
  \/ Det_Load("p1")
  \/ \E q \in OneQuery : Eval_Lookup("p1", q)

SpecDomain == InitDomain /\ [][NextDomain]_vars

\* ------------------------------------------------------------------ claims
\* The coordinate tuple of an index tuple.
CoordsAt(grids, idx) == [d \in 1..Len(grids) |-> grids[d][idx[d]]]

\* The detection array of process p has been assembled (and not yet dropped).
DetAssembled(p) ==
  pc[p] \in { "det_open", "det_dump", "det_load" } /\ loc[p].pickled # <<>>

\* C1.  Index-tag fidelity: in both grid builds, sequential or parallel, under
\* every shuffle and every order of completion, the assembled dense array
\* holds at every index tuple of the Cartesian product the value of the
\* evaluation function at that index's coordinates.
C1_IndexTagFidelity ==
  \A p \in Procs :
    /\ inst[p]._snrinterpolant # <<>> =>
         LET w == inst[p]._snrinterpolant[1]
             grids == SnrGrids(inst[p].cfg)
         IN  /\ DOMAIN w.values = GridIndices(grids)
             /\ \A idx \in GridIndices(grids) :
                  w.values[idx] = Snr(inst[p].cfg, CoordsAt(grids, idx))
    /\ DetAssembled(p) =>
         LET w == loc[p].pickled[1]
             grids == DetGrids(inst[p].cfg)
         IN  /\ DOMAIN w.values = GridIndices(grids)
             /\ \A idx \in GridIndices(grids) :
                  w.values[idx] = ComputeOf(inst[p], CoordsAt(grids, idx))

\* A parallel object has assembled both arrays, 4 and 8 points, each from a
\* batch dispatched in a shuffled order.
C1_Witness ==
  \E p \in Procs :
    /\ pc[p] = "det_open"
    /\ inst[p].cfg.parallel /\ inst[p].cfg.mc1d = 2
    /\ hist[p].snrshuffled /\ hist[p].detshuffled

\* What the sequential branch computes: map over the unshuffled mesh, zipped
\* with the unshuffled index tuples.
SequentialValues(grids, meshcoord, results) ==
  Assemble(grids, meshcoord, [t \in 1..Len(meshcoord) |-> Done(results[t])])

\* map(self._snr, meshgrid) and map(self._compute, meshgrid) over the
\* unshuffled mesh.
MapSnr(self) ==
  LET grids == SnrGrids(self.cfg)
      meshgrid == MeshGrid(grids, MeshCoord2(grids))
  IN [t \in 1..Len(meshgrid) |-> Snr(self.cfg, meshgrid[t])]

MapCompute(self) ==
  LET grids == DetGrids(self.cfg)
      meshgrid == MeshGrid(grids, MeshCoord3(grids))
  IN [t \in 1..Len(meshgrid) |-> ComputeOf(self, meshgrid[t])]

\* C7.  Parallel and sequential execution are equivalent: whatever the mode,
\* the dense arrays an object assembles are the arrays the in-process map
\* over the unshuffled mesh gives for the same grid and function.
C7_ParallelEqualsSequential ==
  \A p \in Procs :
    LET self == inst[p] IN
    /\ self._snrinterpolant # <<>> =>
         self._snrinterpolant[1].values =
           SequentialValues(SnrGrids(self.cfg), MeshCoord2(SnrGrids(self.cfg)), MapSnr(self))
    /\ DetAssembled(p) =>
         loc[p].pickled[1].values =
           SequentialValues(DetGrids(self.cfg), MeshCoord3(DetGrids(self.cfg)), MapCompute(self))

\* A parallel object is writing the 8-point array it assembled from a
\* shuffled batch.
C7_Witness ==
  \E p \in Procs :
    /\ pc[p] = "det_dump"
    /\ inst[p].cfg.parallel /\ inst[p].cfg.mc1d = 2
    /\ hist[p].detshuffled

\* C10.  Worker-pool reuse: an object creates at most one pool over its
\* lifetime, and both of its parallel builds dispatch through that pool.
C10_PoolReuse ==
  \A p \in Procs :
    /\ hist[p].pools <= 1
    /\ hist[p].snrpool # 0 => hist[p].snrpool = inst[p].map
    /\ hist[p].detpool # 0 => hist[p].detpool = inst[p].map

\* Both batches of one object have been dispatched.
C10_Witness ==
  \E p \in Procs :
    /\ hist[p].pools = 1
    /\ hist[p].snrpool = 1
    /\ hist[p].detpool = 1

\* The step is taken by one and the same object of process p: it is neither
\* a construction (the only step from idle to idle that touches the object)
\* nor the end of the process.
SameObject(p) ==
  /\ inst[p].alive /\ inst'[p].alive
  /\ ~(pc[p] = "idle" /\ pc'[p] = "idle")

\* A wrapper that is set stays the one it is.
Keeps(before, after) == before # <<>> => after = before

\* A public call has ended and the caller has the result or the exception.
Ended(p) ==
  pc[p] = "idle" /\ outcome[p] \notin { "none", "constructed", "running", "terminated" }

\* C6.  Lazy once-only memoization: the wrappers (_interpolate of pdet;
\* _interpolate, _snrinterpolant, _pdetproj of detectability) are absent after
\* construction, and once set are never replaced; a call that finds its
\* wrapper in memory returns it without evaluating anything and without
\* reading the disk, whatever has happened to the artifact file meanwhile.
C6_State ==
  \A p \in Procs :
    /\ outcome[p] = "constructed" =>
         /\ inst[p]._interpolate = <<>>
         /\ inst[p]._snrinterpolant = <<>>
         /\ inst[p]._pdetproj = <<>>
    /\ pc[p] = "idle" /\ hist[p].memo =>
         /\ outcome[p] = "returned"
         /\ hist[p].work = NoWork
         /\ hist[p].loads = 0

C6_Step ==
  \A p \in Procs :
    SameObject(p) =>
      /\ Keeps(inst[p]._interpolate, inst'[p]._interpolate)
      /\ Keeps(inst[p]._snrinterpolant, inst'[p]._snrinterpolant)
      /\ inst[p]._pdetproj # <<>> =>
           /\ inst'[p]._pdetproj # <<>>
           /\ [inst'[p]._pdetproj[1] EXCEPT !._interpolate = <<>>]
                = [inst[p]._pdetproj[1] EXCEPT !._interpolate = <<>>]
           /\ Keeps(inst[p]._pdetproj[1]._interpolate, inst'[p]._pdetproj[1]._interpolate)

C6_LazyOnceOnly == []C6_State /\ [][C6_Step]_vars

\* An eval has been served from the wrapper in memory after the artifact it
\* was loaded from was removed.
C6_Witness ==
  \E p \in Procs :
    /\ Ended(p) /\ outcome[p] = "returned"
    /\ hist[p].method = "eval" /\ hist[p].memo
    /\ ~os_path_isfile(inst[p].binfile)

\* C2.  Fingerprint completeness: the detection-grid artifact an instance
\* has loaded was built under the instance's own value-affecting parameters
\* (approximant, psd, flow, deltaf, snrthreshold, massmin, massmax, zmin,
\* zmax, mc1d, mcn, mcbins): configurations that differ in any of them never
\* meet at one artifact path.
C2_FingerprintComplete ==
  \A p \in Procs :
    inst[p]._interpolate # <<>> => hist[p].loadedby = << ValueParams(inst[p].cfg) >>

\* C3.  Cache hit skips the build: a call that found the artifact at its
\* path when interpolate first ran ends with the artifact loaded and nothing
\* evaluated: no Monte-Carlo sample, no grid-point evaluation, no SNR
\* evaluation.
C3_CacheHitSkipsBuild ==
  \A p \in Procs :
    /\ Ended(p) /\ hist[p].present =>
         /\ outcome[p] = "returned"
         /\ hist[p].loads >= 1
         /\ hist[p].work.snr = 0
         /\ hist[p].work.compute = 0
    /\ Ended(p) /\ hist[p].pdetpresent /\ hist[p].method = "pdetproj" =>
         /\ outcome[p] = "returned"
         /\ hist[p].loads >= 1
         /\ hist[p].work = NoWork

\* C4.  A build that does not run to completion leaves no artifact: when no
\* call is running, no file of the cache is an incompletely written one, and
\* no call ends on a file it could not unpickle.
C4_NoArtifactOfIncompleteBuild ==
  (\A p \in Procs : pc[p] = "idle") =>
    /\ \A f \in AllPaths : disk[f].state # "partial"
    /\ \A p \in Procs : outcome[p] # "UnpicklingError"

\* C5.  The SNR grid is obtained by cache-hit-or-build against the disk: an
\* instance never evaluates the SNR grid of a fingerprint whose SNR grid an
\* instance has built before.
C5_SnrGridBuiltOnce ==
  \A p \in Procs :
    pc[p] \in { "snr_poll", "snr_map", "snr_assemble" } =>
      SnrFingerprint(inst[p].cfg) \notin built

\* C8.  The dependency-missing failure is raised only where an SNR
\* computation is attempted: never by the projection-factor distribution,
\* and never by an eval whose artifact was on disk when interpolate ran.
C8_DependencyMissingOnlyAtSnr ==
  \A p \in Procs :
    outcome[p] = "AssertionError" =>
      \/ hist[p].method = "snrinterpolant"
      \/ hist[p].method = "eval" /\ ~hist[p].present

\* C9.  The projection-factor distribution of a pipeline keeps its artifact
\* under the pipeline's configured cache directory.
C9_PdetSharesDirectory ==
  \A p \in Procs :
    inst[p]._pdetproj # <<>> =>
      /\ inst[p]._pdetproj[1].directory = inst[p].cfg.directory
      /\ inst[p]._pdetproj[1].binfile =
           PdetBinfile(inst[p].cfg.directory, inst[p].cfg.binfilepdet,
                       inst[p].cfg.mcn, inst[p].cfg.mcbins)

\* C11.  Exact oracle path: with the waveform provider available, compute
\* called on a pipeline object completes and returns a value to its caller.
C11_ComputeCompletes ==
  \A p \in Procs :
    Ended(p) /\ hist[p].method = "compute" /\ inst[p].cfg.has_pycbc =>
      outcome[p] = "returned"

\* C12.  Scalar/vector rule of eval: the call gives a result for scalars and
\* for sequences of one length n alike: n values in input order, the i-th the
\* interpolant at (m1[i], m2[i], z[i]), a result of length one demoted to a
\* scalar.
C12_ScalarVectorRule ==
  \A p \in Procs :
    Ended(p) /\ hist[p].method = "eval" /\ retval[p] # <<>> =>
      LET q == retval[p][1].args
          xi == Transpose(Promote(q.m1), Promote(q.m2), Promote(q.z))
          at(i) == Interp(inst[p]._interpolate[1], xi[i])
      IN  /\ retval[p][1].value # <<>>
          /\ retval[p][1].value[1] =
               IF Len(xi) = 1 THEN Scalar(at(1))
               ELSE Vector([i \in 1..Len(xi) |-> at(i)])

\* pdet.eval(w) has answered the caller of process p.
PdetAnswered(p) ==
  Ended(p) /\ hist[p].method = "pdetproj" /\ retval[p] # <<>>

\* a >= b for two probabilities.
Geq(a, b) == a.num * b.den >= b.num * a.den

\* What the claim says of one answer a = S(w) of the distribution dist:
\* non-increasing against S at every other w, 1 at or below the smallest
\* sample, 0 at or above the largest.
SurvivalAnswer(dist, w, a) ==
  /\ \A w2 \in WQueries :
       /\ w <= w2 => Geq(a, Sf(dist, w2))
       /\ w2 <= w => Geq(Sf(dist, w2), a)
  /\ w <= dist.hist.observed[1] => a.num = a.den
  /\ w >= dist.hist.observed[2] => a.num = 0

\* C13 as stated.  The survival function pdet.eval exposes is non-increasing,
\* equals 1 at or below the smallest sample and 0 at or above the largest,
\* and never raises for an out-of-range w.
C13_AsStated ==
  \A p \in Procs :
    PdetAnswered(p) =>
      /\ outcome[p] = "returned"
      /\ SurvivalAnswer(inst[p]._pdetproj[1]._interpolate[1],
                        retval[p][1].args, retval[p][1].value[1])

\* C13, amended.  The same for a sample that is not constant (its smallest
\* and largest values differ); for a constant sample the function is still
\* non-increasing, within [0, 1], and never raises.
C13_SurvivalFunction ==
  \A p \in Procs :
    PdetAnswered(p) =>
      LET dist == inst[p]._pdetproj[1]._interpolate[1]
          w == retval[p][1].args
          a == retval[p][1].value[1]
      IN  /\ outcome[p] = "returned"
          /\ IF dist.hist.observed[1] < dist.hist.observed[2]
             THEN SurvivalAnswer(dist, w, a)
             ELSE /\ \A w2 \in WQueries :
                       /\ w <= w2 => Geq(a, Sf(dist, w2))
                       /\ w2 <= w => Geq(Sf(dist, w2), a)
                  /\ a.num >= 0 /\ a.num <= a.den

\* pdet.eval has answered 0 for a w above the largest sample of a sample
\* that is not constant.
C13_Witness ==
  \E p \in Procs :
    /\ PdetAnswered(p)
    /\ LET dist == inst[p]._pdetproj[1]._interpolate[1] IN
       /\ dist.hist.observed[1] < dist.hist.observed[2]
       /\ retval[p][1].args > dist.hist.observed[2]
       /\ retval[p][1].value[1].num = 0

\* Process q is between the open for writing and the end of the dump of the
\* file at path.
Writing(q, path) ==
  \/ pc[q] = "det_dump" /\ inst[q].binfile = path
  \/ pc[q] = "pdet_dump" /\ inst[q]._pdetproj[1].binfile = path

\* The file process p is about to unpickle.
Loading(p) ==
  IF pc[p] = "det_load" THEN inst[p].binfile ELSE inst[p]._pdetproj[1].binfile

\* C14.  Unprotected concurrent first-time build: nothing but the existence
\* of the file decides between load and build, so a file can be written once
\* by each process that found it missing, and a load fails on an unfinished
\* file exactly when another process is in the middle of writing it.
C14_State ==
  \A f \in AllPaths :
    /\ disk[f].writes <= Cardinality(Procs)
    /\ disk[f].state = "partial" => \E q \in Procs : Writing(q, f)

C14_Step ==
  \A p \in Procs :
    pc[p] \in { "det_load", "pdet_load" } /\ outcome'[p] = "UnpicklingError" =>
      \E q \in Procs \ { p } : Writing(q, Loading(p))

C14_UnprotectedRace == []C14_State /\ [][C14_Step]_vars

\* Both races in one run: the artifact has been written twice, and the
\* first process, in a later call, found the file present and failed to load
\* it while the second, after its own full build, is still writing.
C14_Witness ==
  /\ outcome["p1"] = "UnpicklingError" /\ hist["p1"].present
  /\ pc["p2"] = "det_dump" /\ hist["p2"].work.compute >= 1
  /\ inst["p1"].binfile = inst["p2"].binfile
  /\ disk[inst["p2"].binfile].writes = Cardinality(Procs)

\* Every cell of a dense array over the grids holds a computed value.
Filled(interpolant, grids) ==
  /\ DOMAIN interpolant.values = GridIndices(grids)
  /\ \A idx \in GridIndices(grids) : interpolant.values[idx] # Zero

\* C15.  Ordering of a detection-grid build: the SNR interpolant is built in
\* full and the projection distribution is available before a detection-grid
\* point is evaluated; the artifact is opened for writing only with every
\* grid point computed and placed; the wrapper is set only from the artifact
\* read back from the disk.
C15_State ==
  \A p \in Procs :
    /\ pc[p] \in { "det_poll", "det_map", "det_assemble" } \/ hist[p].work.compute >= 1 =>
         /\ inst[p]._snrinterpolant # <<>>
         /\ Filled(inst[p]._snrinterpolant[1], SnrGrids(inst[p].cfg))
         /\ inst[p]._pdetproj # <<>>
         /\ inst[p]._pdetproj[1]._interpolate # <<>>
    /\ pc[p] \in { "det_open", "det_dump" } =>
         /\ loc[p].pickled # <<>>
         /\ Filled(loc[p].pickled[1], DetGrids(inst[p].cfg))
         /\ hist[p].work.compute = Cardinality(GridIndices(DetGrids(inst[p].cfg)))
         /\ inst[p]._interpolate = <<>>

C15_Step ==
  \A p \in Procs :
    /\ inst[p].alive /\ disk'[inst[p].binfile] # disk[inst[p].binfile] =>
         pc[p] \in { "det_open", "det_dump" }
    /\ SameObject(p) /\ inst'[p]._interpolate # inst[p]._interpolate =>
         /\ pc[p] = "det_load"
         /\ disk[inst[p].binfile].state = "complete"
         /\ inst'[p]._interpolate = disk[inst[p].binfile].data
         /\ ~hist[p].present => disk[inst[p].binfile].writes >= 1

C15_BuildOrder == []C15_State /\ [][C15_Step]_vars

\* An eval that missed the cache has returned after a parallel build of the
\* 8-point grid.
C15_Witness ==
  \E p \in Procs :
    /\ Ended(p) /\ outcome[p] = "returned" /\ hist[p].method = "eval"
    /\ ~hist[p].present /\ inst[p]._interpolate # <<>>
    /\ inst[p].cfg.parallel /\ inst[p].cfg.mc1d = 2
    /\ hist[p].work.compute = Cardinality(GridIndices(DetGrids(inst[p].cfg)))

\* Process p is in a polling loop.
Polling(p) == pc[p] \in { "snr_poll", "det_poll" }

\* C16.  Progress polling is informational only and terminates: a builder
\* leaves its polling loop only with no dispatched task pending, for the
\* assembly and with the batch untouched, and it does leave it once the
\* tasks have completed.
C16_Step ==
  \A p \in Procs :
    Polling(p) /\ pc'[p] # pc[p] =>
      /\ \A t \in 1..Len(loc[p].meshvalues) : loc[p].meshvalues[t].st # "pending"
      /\ Len(loc[p].meshvalues) = Len(loc[p].meshgrid)
      /\ pc'[p] = IF pc[p] = "snr_poll" THEN "snr_assemble" ELSE "det_assemble"
      /\ loc'[p] = loc[p]
      /\ inst'[p] = inst[p]

C16_PollingTerminates ==
  /\ [][C16_Step]_vars
  /\ \A p \in Procs : pc[p] = "snr_poll" ~> pc[p] = "snr_assemble"
  /\ \A p \in Procs : pc[p] = "det_poll" ~> pc[p] = "det_assemble"

\* The builder has left the polling loop of a shuffled 8-task batch.
C16_Witness ==
  \E p \in Procs :
    /\ pc[p] = "det_assemble" /\ hist[p].detshuffled
    /\ Len(loc[p].meshvalues) = Cardinality(GridIndices(DetGrids(inst[p].cfg)))
    /\ inst[p].cfg.mc1d = 2

\* C17.  Pool availability: a build of a parallel object that dispatches
\* its tasks finds the worker-pool map on the object; no call ends on the
\* missing attribute.
C17_PoolAvailable ==
  \A p \in Procs :
    /\ outcome[p] # "AttributeError"
    /\ pc[p] \in { "snr_poll", "det_poll" } => inst[p].map # 0

\* x lies within the range of an axis of an interpolant.
WithinAxis(axis, x) == axis[1] <= x /\ x <= axis[Len(axis)]

\* C18.  SNR-grid domain containment: every detection-grid point handed to
\* _compute has both redshifted masses within the axes of the SNR grid the
\* object holds, so the SNR grid is never extrapolated by the build.
C18_DomainContainment ==
  \A p \in Procs :
    pc[p] \in { "det_poll", "det_map", "det_assemble" } =>
      \A t \in 1..Len(loc[p].meshgrid) :
        LET data == loc[p].meshgrid[t]
            points == inst[p]._snrinterpolant[1].points
        IN  /\ WithinAxis(points[1], data[1] * (ZUnit + data[3]))
            /\ WithinAxis(points[2], data[2] * (ZUnit + data[3]))

\* The 27 points of a three-samples-per-axis grid have been evaluated for a
\* configuration away from the defaults.
C18_Witness ==
  \E p \in Procs :
    /\ pc[p] = "det_assemble"
    /\ inst[p].cfg \in DomainConfigs
    /\ inst[p].cfg.mc1d = 3 /\ inst[p].cfg.zmin > 0
    /\ hist[p].work.compute = Len(loc[p].meshgrid)
    /\ Len(loc[p].meshgrid) = Cardinality(GridIndices(DetGrids(inst[p].cfg)))

=============================================================================
